---- MODULE Spec2Model ----
(***************************************************************************)
(* PDF summarizer (src/app.py): POST /upload extracts the text of a PDF,   *)
(* fingerprints it with SHA-256, looks the fingerprint up in the table     *)
(* `summaries`, and on a miss asks the summarizer and stores the answer.   *)
(* Requests run concurrently (one thread and one sqlite connection each);  *)
(* the steps of a request interleave at the extractor call, the database   *)
(* statements and the summarizer call.                                     *)
(***************************************************************************)
EXTENDS Integers, Sequences, FiniteSets, TLC

\* Number of upload requests in a run.
MaxReqs == 2

Reqs == 1..MaxReqs

\* Python's None, for a summary / error / hash that has no value.
None == "<None>"

-----------------------------------------------------------------------------
(* Inputs.  Characters are code points: a=97 b=98 t=116 x=120 p=112 d=100  *)
(* f=102 .=46 e-acute=233.                                                 *)

DotPdf == <<46, 112, 100, 102>>

\* An uploaded file: its declared name, whether PyPDF2 can read the stream,
\* and the text of each page.
UploadedFile(name, readable, pages) ==
    [filename |-> name, readable |-> readable, pages |-> pages]

Uploads ==
    { UploadedFile(<<>>, TRUE, << <<97>> >>),                          \* no file name
      UploadedFile(<<97, 46, 116, 120, 116>>, TRUE, << <<97>> >>),     \* a.txt
      UploadedFile(<<97>> \o DotPdf, TRUE, << <<97, 233>> >>),         \* a.pdf, one page
      UploadedFile(<<98>> \o DotPdf, TRUE, << <<97>>, <<233>> >>),     \* b.pdf, same text on two pages
      UploadedFile(<<120>> \o DotPdf, TRUE, << <<98>> >>),             \* x.pdf, other text
      UploadedFile(<<100>> \o DotPdf, FALSE, <<>>) }                   \* d.pdf, unreadable

\* Texts the summarizer may answer with (the empty string included).
Summaries == {"", "sA"}

\* Exceptions the summarizer call may raise.
SummarizerFailures == {"TimeoutError", "OpenAIError"}

-----------------------------------------------------------------------------
(* Pure helpers.                                                           *)

\* str.endswith
EndsWith(s, suffix) ==
    /\ Len(s) >= Len(suffix)
    /\ SubSeq(s, Len(s) - Len(suffix) + 1, Len(s)) = suffix

\* Mutant: only the empty file name is refused.
NotPdfTypeEmptyOnly(filename) == filename = <<>>

\* The wrong-type test of upload_file.
NotPdfType(filename) == filename = <<>> \/ ~EndsWith(filename, DotPdf)

\* The loop over reader.pages: extracted_text += page_text.
RECURSIVE ConcatPages(_)
ConcatPages(pages) ==
    IF pages = <<>> THEN <<>> ELSE Head(pages) \o ConcatPages(Tail(pages))

\* extract_text_from_pdf: the text, or ValueError when PdfReader fails.
ExtractTextFromPdf(pdf_file) ==
    IF pdf_file.readable
    THEN [ok |-> TRUE, text |-> ConcatPages(pdf_file.pages), exc |-> None]
    ELSE [ok |-> FALSE, text |-> <<>>,
          exc |-> [type |-> "ValueError",
                   msg |-> "An error occurred while reading the PDF."]]

\* str.encode(): UTF-8 of code points below 2048.
RECURSIVE Utf8Encode(_)
Utf8Encode(s) ==
    IF s = <<>> THEN <<>>
    ELSE LET c == Head(s)
         IN  (IF c < 128 THEN <<c>> ELSE <<192 + (c \div 64), 128 + (c % 64)>>)
             \o Utf8Encode(Tail(s))

\* Stand-in for the SHA-256 compression: a deterministic fold of the bytes
\* into a fixed-width word, free of collisions on the byte strings modelled.
RECURSIVE DigestFrom(_, _)
DigestFrom(h, bytes) ==
    IF bytes = <<>> THEN h
    ELSE DigestFrom((h * 257 + Head(bytes) + 1) % 65536, Tail(bytes))

HexDigit(n) ==
    <<"0", "1", "2", "3", "4", "5", "6", "7",
      "8", "9", "a", "b", "c", "d", "e", "f">>[n + 1]

\* hashlib.sha256(bytes).hexdigest(): fixed-length lowercase hex.
Sha256Hex(bytes) ==
    LET h == DigestFrom(7, bytes)
    IN  << HexDigit(h \div 4096), HexDigit((h \div 256) % 16),
           HexDigit((h \div 16) % 16), HexDigit(h % 16) >>

\* Mutant: the cache key taken from the file name instead of the text.
PdfHashOfFilename(uploaded_file, text) == Sha256Hex(Utf8Encode(uploaded_file.filename))

\* pdf_hash = hashlib.sha256(text.encode()).hexdigest()
PdfHash(uploaded_file, text) == Sha256Hex(Utf8Encode(text))

-----------------------------------------------------------------------------
(* The table summaries(pdf_hash, summary): a sequence of rows.             *)

Row(h, s) == [pdf_hash |-> h, summary |-> s]

RowsWith(rows, h) == { i \in 1..Len(rows) : rows[i].pdf_hash = h }

\* Mutant: a table without the key constraint.
NoKeyConstraint(rows, h) == FALSE

\* The primary key on pdf_hash: a row with this key is already there.
KeyViolation(rows, h) == RowsWith(rows, h) # {}

\* SELECT summary FROM summaries WHERE pdf_hash=? ... fetchone():
\* the 1-tuple of the first matching row, or the empty value (falsy).
Fetchone(rows, h) ==
    IF RowsWith(rows, h) = {} THEN <<>>
    ELSE LET i == CHOOSE j \in RowsWith(rows, h) :
                      \A k \in RowsWith(rows, h) : j <= k
         IN  <<rows[i].summary>>

\* Mutant: INSERT OR REPLACE, overwriting the row of an existing key.
ExecuteInsertOrReplace(rows, h, s) ==
    IF RowsWith(rows, h) # {}
    THEN [ok |-> TRUE,
          rows |-> [i \in 1..Len(rows) |->
                       IF rows[i].pdf_hash = h THEN Row(h, s) ELSE rows[i]]]
    ELSE [ok |-> TRUE, rows |-> Append(rows, Row(h, s))]

\* INSERT INTO summaries (pdf_hash, summary) VALUES (?, ?): the new table,
\* or IntegrityError when the key constraint rejects the row.
ExecuteInsert(rows, h, s) ==
    IF KeyViolation(rows, h)
    THEN [ok |-> FALSE, rows |-> rows]
    ELSE [ok |-> TRUE, rows |-> Append(rows, Row(h, s))]

-----------------------------------------------------------------------------
(* Exceptions and responses.                                               *)

Exc(type, msg) == [type |-> type, msg |-> msg]

SqliteErrors == {"sqlite3.OperationalError", "sqlite3.IntegrityError"}

\* Mutant: the clause for Exception placed first, shadowing the others.
RetrieveSummaryExceptGenericFirst(type) ==
    Exc("Exception", "An error occured while retrieving the summary.")

\* The except clauses of retrieve_summary, in their order: the exception it
\* raises in place of the one caught.
RetrieveSummaryExcept(type) ==
    IF type = "TimeoutError"
    THEN Exc("TimeoutError",
             "The summarization process timed out. Please try again later.")
    ELSE IF type \in SqliteErrors
    THEN Exc("sqlite3.Error", "An error occurred with the database.")
    ELSE Exc("Exception", "An error occured while retrieving the summary.")

\* render_template(...) returned from a view: a page, answered with 200.
Rendered(template, summary, error) ==
    [template |-> template, summary |-> summary, error |-> error, status |-> 200]

\* An exception leaving the view: no page, the framework answers 500.
Propagated(exc) ==
    [template |-> None, summary |-> None, error |-> exc.type, status |-> 500]

NoResponse == [template |-> None, summary |-> None, error |-> None, status |-> 0]

\* Mutant: the view catches ValueError only.
UploadFileExceptValueError(exc) ==
    IF exc.type = "ValueError"
    THEN Rendered("upload.html", None, exc.msg)
    ELSE Propagated(exc)

\* except Exception as e: render_template("upload.html", error=str(e))
UploadFileExcept(exc) == Rendered("upload.html", None, exc.msg)

\* The answer to a file of the wrong type.
RejectedResponse ==
    Rendered("upload.html", None,
             "Please ensure that the uploaded file is in PDF format.")

-----------------------------------------------------------------------------
VARIABLES
    pc,             \* where each request is
    file,           \* uploaded_file of each request
    text,           \* extracted text
    pdf_hash,       \* fingerprint of the text
    summary,        \* local `summary` of retrieve_summary
    g,              \* g._database of each request: the connection held
                    \* (named by the request that opened it), 0 for None
    conn,           \* the connection each request opened: "none", "open", "closed"
    resp,           \* what the request answered
    store,          \* committed rows of table summaries
    writer,         \* request holding the database write lock, 0 if none
    dirty,          \* the table as the writer's open transaction sees it
    \* history of each request
    extractCalls,   \* calls of the text extractor
    sumCalls,       \* calls of openai_summarization
    writes,         \* rows the request committed
    presentAtLookup,\* the fingerprint had a row when the SELECT ran
    raised,         \* type of the exception raised in the request, or None
    failedAt,       \* the step that failed, or None
    doneBefore      \* requests already complete when this one arrived

vars == << pc, file, text, pdf_hash, summary, g, conn, resp, store, writer, dirty,
           extractCalls, sumCalls, writes, presentAtLookup, raised, failedAt,
           doneBefore >>

locals == << file, text, pdf_hash, summary >>
db     == << store, writer, dirty >>
hist   == << extractCalls, sumCalls, writes, presentAtLookup, raised, failedAt,
             doneBefore >>

NoFile == UploadedFile(<<>>, FALSE, <<>>)

Init ==
    /\ pc = [r \in Reqs |-> "new"]
    /\ file = [r \in Reqs |-> NoFile]
    /\ text = [r \in Reqs |-> <<>>]
    /\ pdf_hash = [r \in Reqs |-> <<>>]
    /\ summary = [r \in Reqs |-> None]
    /\ g = [r \in Reqs |-> 0]
    /\ conn = [r \in Reqs |-> "none"]
    /\ resp = [r \in Reqs |-> NoResponse]
    /\ store = <<>>
    /\ writer = 0
    /\ dirty = <<>>
    /\ extractCalls = [r \in Reqs |-> 0]
    /\ sumCalls = [r \in Reqs |-> 0]
    /\ writes = [r \in Reqs |-> 0]
    /\ presentAtLookup = [r \in Reqs |-> FALSE]
    /\ raised = [r \in Reqs |-> None]
    /\ failedAt = [r \in Reqs |-> None]
    /\ doneBefore = [r \in Reqs |-> {}]

\* The request answers and leaves the view.
Answer(r, response) ==
    /\ resp' = [resp EXCEPT ![r] = response]
    /\ pc' = [pc EXCEPT ![r] = "teardown"]

\* A step of the try block fails with an exception of this type.
Fail(r, step, type, exc) ==
    /\ Answer(r, UploadFileExcept(exc))
    /\ raised' = [raised EXCEPT ![r] = type]
    /\ failedAt' = [failedAt EXCEPT ![r] = step]

\* POST /upload arrives with file f; the wrong type is answered at once.
UploadFile(r, f) ==
    /\ pc[r] = "new"
    /\ file' = [file EXCEPT ![r] = f]
    /\ doneBefore' = [doneBefore EXCEPT ![r] = { q \in Reqs : pc[q] = "done" }]
    /\ IF NotPdfType(f.filename)
       THEN Answer(r, RejectedResponse)
       ELSE /\ pc' = [pc EXCEPT ![r] = "extract"]
            /\ UNCHANGED resp
    /\ UNCHANGED << text, pdf_hash, summary, g, conn, db, extractCalls, sumCalls,
                    writes, presentAtLookup, raised, failedAt >>

\* Mutant: a failed read is swallowed and the text read so far is used.
ExtractTextSwallow(r) ==
    /\ pc[r] = "extract"
    /\ extractCalls' = [extractCalls EXCEPT ![r] = @ + 1]
    /\ text' = [text EXCEPT ![r] = ExtractTextFromPdf(file[r]).text]
    /\ pdf_hash' = [pdf_hash EXCEPT ![r] = PdfHash(file[r], text'[r])]
    /\ pc' = [pc EXCEPT ![r] = "select"]
    /\ UNCHANGED << file, summary, g, conn, resp, db, sumCalls, writes,
                    presentAtLookup, raised, failedAt, doneBefore >>

\* text = extract_text_from_pdf(uploaded_file); pdf_hash = sha256(text)
ExtractText(r) ==
    /\ pc[r] = "extract"
    /\ extractCalls' = [extractCalls EXCEPT ![r] = @ + 1]
    /\ LET res == ExtractTextFromPdf(file[r])
       IN  IF res.ok
           THEN /\ text' = [text EXCEPT ![r] = res.text]
                /\ pdf_hash' = [pdf_hash EXCEPT ![r] = PdfHash(file[r], res.text)]
                /\ pc' = [pc EXCEPT ![r] = "select"]
                /\ UNCHANGED << resp, raised, failedAt >>
           ELSE /\ Fail(r, "extract", res.exc.type, res.exc)
                /\ UNCHANGED << text, pdf_hash >>
    /\ UNCHANGED << file, summary, g, conn, db, sumCalls, writes, presentAtLookup,
                    doneBefore >>

\* Mutant: the connection is kept in a module global shared by all requests.
GetDbShared(r) ==
    IF \E q \in Reqs : conn[q] = "open"
    THEN CHOOSE q \in Reqs : conn[q] = "open"
    ELSE r

\* get_db: the connection in g._database, or a new one opened by this request.
GetDb(r) == IF g[r] = 0 THEN r ELSE g[r]

\* Mutant: the stored row is ignored, every lookup is a miss.
SelectSummaryAlwaysMiss(r) ==
    /\ pc[r] = "select"
    /\ g' = [g EXCEPT ![r] = GetDb(r)]
    /\ conn' = [conn EXCEPT ![GetDb(r)] = "open"]
    /\ presentAtLookup' = [presentAtLookup EXCEPT ![r] = RowsWith(store, pdf_hash[r]) # {}]
    /\ pc' = [pc EXCEPT ![r] = "summarize"]
    /\ UNCHANGED << locals, resp, db, extractCalls, sumCalls, writes, raised,
                    failedAt, doneBefore >>

\* db = get_db(); SELECT ...; fetchone(); if summary: use it and answer.
SelectSummary(r) ==
    /\ pc[r] = "select"
    /\ g' = [g EXCEPT ![r] = GetDb(r)]
    /\ conn' = [conn EXCEPT ![GetDb(r)] = "open"]
    /\ \/ /\ presentAtLookup' = [presentAtLookup EXCEPT ![r] = RowsWith(store, pdf_hash[r]) # {}]
          /\ LET row == Fetchone(store, pdf_hash[r])
             IN  IF row # <<>>
                 THEN /\ summary' = [summary EXCEPT ![r] = row[1]]
                      /\ Answer(r, Rendered("summary.html", row[1], None))
                 ELSE /\ pc' = [pc EXCEPT ![r] = "summarize"]
                      /\ UNCHANGED << summary, resp >>
          /\ UNCHANGED << raised, failedAt >>
       \/ \* the database cannot be read
          /\ Fail(r, "select", "sqlite3.OperationalError",
                  RetrieveSummaryExcept("sqlite3.OperationalError"))
          /\ UNCHANGED << summary, presentAtLookup >>
    /\ UNCHANGED << file, text, pdf_hash, db, extractCalls, sumCalls, writes,
                    doneBefore >>

\* Mutant: a failed summarizer call is tried once more.
SummarizeRetry(r) ==
    /\ pc[r] = "summarize"
    /\ sumCalls' = [sumCalls EXCEPT ![r] = @ + 1]
    /\ \/ \E s \in Summaries :
             /\ summary' = [summary EXCEPT ![r] = s]
             /\ pc' = [pc EXCEPT ![r] = "insert"]
             /\ UNCHANGED << resp, raised, failedAt >>
       \/ \E type \in SummarizerFailures :
             IF sumCalls[r] = 0
             THEN /\ raised' = [raised EXCEPT ![r] = type]
                  /\ failedAt' = [failedAt EXCEPT ![r] = "summarize"]
                  /\ UNCHANGED << pc, resp, summary >>
             ELSE /\ Fail(r, "summarize", type, RetrieveSummaryExcept(type))
                  /\ UNCHANGED summary
    /\ UNCHANGED << file, text, pdf_hash, g, conn, db, extractCalls, writes,
                    presentAtLookup, doneBefore >>

\* Mutant: the message of a failed summarizer call is stored as the summary.
SummarizeStoreError(r) ==
    /\ pc[r] = "summarize"
    /\ sumCalls' = [sumCalls EXCEPT ![r] = @ + 1]
    /\ \/ \E s \in Summaries :
             /\ summary' = [summary EXCEPT ![r] = s]
             /\ UNCHANGED << raised, failedAt >>
       \/ \E type \in SummarizerFailures :
             /\ summary' = [summary EXCEPT ![r] = RetrieveSummaryExcept(type).msg]
             /\ raised' = [raised EXCEPT ![r] = type]
             /\ failedAt' = [failedAt EXCEPT ![r] = "summarize"]
    /\ pc' = [pc EXCEPT ![r] = "insert"]
    /\ UNCHANGED << file, text, pdf_hash, g, conn, resp, db, extractCalls, writes,
                    presentAtLookup, doneBefore >>

\* Mutant: single flight, a request waits while another request with the
\* same fingerprint is between its summarizer call and its commit.
SummarizeSingleFlight(r) ==
    /\ pc[r] = "summarize"
    /\ \A q \in Reqs \ {r} :
           pdf_hash[q] = pdf_hash[r] => pc[q] \notin {"insert", "commit"}
    /\ sumCalls' = [sumCalls EXCEPT ![r] = @ + 1]
    /\ \/ \E s \in Summaries :
             /\ summary' = [summary EXCEPT ![r] = s]
             /\ pc' = [pc EXCEPT ![r] = "insert"]
             /\ UNCHANGED << resp, raised, failedAt >>
       \/ \E type \in SummarizerFailures :
             /\ Fail(r, "summarize", type, RetrieveSummaryExcept(type))
             /\ UNCHANGED summary
    /\ UNCHANGED << file, text, pdf_hash, g, conn, db, extractCalls, writes,
                    presentAtLookup, doneBefore >>

\* summary = self.openai_summarization(text)
Summarize(r) ==
    /\ pc[r] = "summarize"
    /\ sumCalls' = [sumCalls EXCEPT ![r] = @ + 1]
    /\ \/ \E s \in Summaries :
             /\ summary' = [summary EXCEPT ![r] = s]
             /\ pc' = [pc EXCEPT ![r] = "insert"]
             /\ UNCHANGED << resp, raised, failedAt >>
       \/ \E type \in SummarizerFailures :
             /\ Fail(r, "summarize", type, RetrieveSummaryExcept(type))
             /\ UNCHANGED summary
    /\ UNCHANGED << file, text, pdf_hash, g, conn, db, extractCalls, writes,
                    presentAtLookup, doneBefore >>

\* db.execute("INSERT ..."): waits for the write lock, then writes the row
\* into its transaction, or is rejected by the key constraint.
InsertSummary(r) ==
    /\ pc[r] = "insert"
    /\ \/ /\ writer = 0
          /\ LET res == ExecuteInsert(store, pdf_hash[r], summary[r])
             IN  /\ writer' = r
                 /\ dirty' = res.rows
                 /\ IF res.ok
                    THEN /\ pc' = [pc EXCEPT ![r] = "commit"]
                         /\ UNCHANGED << resp, raised, failedAt >>
                    ELSE Fail(r, "insert", "sqlite3.IntegrityError",
                              RetrieveSummaryExcept("sqlite3.IntegrityError"))
       \/ \* the lock is busy past the timeout, or the write faults
          /\ Fail(r, "insert", "sqlite3.OperationalError",
                  RetrieveSummaryExcept("sqlite3.OperationalError"))
          /\ UNCHANGED << writer, dirty >>
    /\ UNCHANGED << locals, g, conn, store, extractCalls, sumCalls, writes,
                    presentAtLookup, doneBefore >>

\* Mutant: the view answers without db.commit().
CommitSummarySkipped(r) ==
    /\ pc[r] = "commit"
    /\ Answer(r, Rendered("summary.html", summary[r], None))
    /\ UNCHANGED << locals, g, conn, db, hist >>

\* db.commit(); return summary; render summary.html
CommitSummary(r) ==
    /\ pc[r] = "commit"
    /\ writer = r
    /\ \/ /\ store' = dirty
          /\ writer' = 0
          /\ writes' = [writes EXCEPT ![r] = @ + 1]
          /\ Answer(r, Rendered("summary.html", summary[r], None))
          /\ UNCHANGED << dirty, raised, failedAt >>
       \/ \* the commit faults
          /\ Fail(r, "commit", "sqlite3.OperationalError",
                  RetrieveSummaryExcept("sqlite3.OperationalError"))
          /\ UNCHANGED << store, writer, dirty, writes >>
    /\ UNCHANGED << locals, g, conn, extractCalls, sumCalls, presentAtLookup,
                    doneBefore >>

\* teardown_appcontext: close the connection if one was opened; closing
\* rolls back an open transaction and frees the write lock.
CloseConnection(r) ==
    /\ pc[r] = "teardown"
    /\ pc' = [pc EXCEPT ![r] = "done"]
    /\ conn' = IF g[r] # 0 THEN [conn EXCEPT ![g[r]] = "closed"] ELSE conn
    /\ UNCHANGED g
    /\ IF writer = r
       THEN /\ writer' = 0
            /\ dirty' = store
       ELSE UNCHANGED << writer, dirty >>
    /\ UNCHANGED << locals, resp, store, hist >>

Next ==
    \/ \E r \in Reqs, f \in Uploads : UploadFile(r, f)
    \/ \E r \in Reqs : ExtractText(r)
    \/ \E r \in Reqs : SelectSummary(r)
    \/ \E r \in Reqs : Summarize(r)
    \/ \E r \in Reqs : InsertSummary(r)
    \/ \E r \in Reqs : CommitSummary(r)
    \/ \E r \in Reqs : CloseConnection(r)

Spec == Init /\ [][Next]_vars

-----------------------------------------------------------------------------
(* Properties.                                                             *)

\* The request has left the view with an answer.
Answered(r) == pc[r] \in {"teardown", "done"}

SummaryPage(r) == Answered(r) /\ resp[r].template = "summary.html"

\* The fingerprint of a text, as the specification defines it.
Fingerprint(t) == Sha256Hex(Utf8Encode(t))

\* The file name is non-empty and its last four characters are ".pdf".
DeclaresPdf(f) ==
    /\ Len(f.filename) >= 4
    /\ \A i \in 1..4 : f.filename[Len(f.filename) - 4 + i] = DotPdf[i]

\* C1 Cache-hit short-circuit: a request whose fingerprint had a row when its
\* lookup ran never calls the summarizer and answers the stored summary.
C1_CacheHitShortCircuit ==
    \A r \in Reqs :
        presentAtLookup[r] =>
            /\ sumCalls[r] = 0
            /\ SummaryPage(r)
            /\ RowsWith(store, pdf_hash[r]) # {}
            /\ \A i \in RowsWith(store, pdf_hash[r]) :
                   resp[r].summary = store[i].summary

C1_Witness ==
    \E r \in Reqs :
        /\ presentAtLookup[r]
        /\ pc[r] = "done"
        /\ resp[r].template = "summary.html"
        /\ sumCalls[r] = 0

\* C2 Idempotent caching: after two successful uploads of the same text, the
\* second arriving after the first is complete, the table holds exactly one
\* row for the fingerprint of the text and the two requests called the
\* summarizer at most once between them, also when the files differ.
C2_IdempotentCaching ==
    \A r1 \in Reqs : \A r2 \in Reqs \ {r1} :
        ( /\ r1 \in doneBefore[r2]
          /\ SummaryPage(r1)
          /\ SummaryPage(r2)
          /\ text[r1] = text[r2] )
        => /\ Cardinality(RowsWith(store, Fingerprint(text[r1]))) = 1
           /\ sumCalls[r1] + sumCalls[r2] <= 1

C2_Witness ==
    \E r1 \in Reqs : \E r2 \in Reqs \ {r1} :
        /\ r1 \in doneBefore[r2]
        /\ pc[r2] = "done"
        /\ SummaryPage(r1)
        /\ SummaryPage(r2)
        /\ text[r1] = text[r2]
        /\ file[r1] # file[r2]
        /\ sumCalls[r1] = 1
        /\ sumCalls[r2] = 0

\* C3 Race safety (as claimed): a request that missed the cache, got a summary
\* from the summarizer and had its insert rejected by the key constraint
\* answers the committed summary, not an error.
C3_RaceSafety ==
    \A r \in Reqs :
        ( /\ Answered(r)
          /\ sumCalls[r] = 1
          /\ raised[r] = "sqlite3.IntegrityError" )
        => /\ resp[r].template = "summary.html"
           /\ \E i \in RowsWith(store, pdf_hash[r]) :
                  resp[r].summary = store[i].summary

\* C4 Uniqueness: the table never holds two rows with the same fingerprint.
C4_Uniqueness ==
    \A i \in 1..Len(store) : \A j \in 1..Len(store) :
        store[i].pdf_hash = store[j].pdf_hash => i = j

\* Two requests with one fingerprint both missed and both reached the insert;
\* one committed, the other was rejected.
C4_Witness ==
    \E r1 \in Reqs : \E r2 \in Reqs \ {r1} :
        /\ pdf_hash[r1] = pdf_hash[r2]
        /\ writes[r1] = 1
        /\ sumCalls[r2] = 1
        /\ raised[r2] = "sqlite3.IntegrityError"
        /\ Cardinality(RowsWith(store, pdf_hash[r1])) = 1

\* C5 Record immutability: every step keeps every committed row as it is;
\* the table only grows.
C5_RecordImmutability ==
    [][ /\ Len(store') >= Len(store)
        /\ \A i \in 1..Len(store) : store'[i] = store[i] ]_vars

\* A row is stored and a later insert for its fingerprint, carrying another
\* summary, has been attempted.
C5_Witness ==
    \E r \in Reqs :
        /\ raised[r] = "sqlite3.IntegrityError"
        /\ \E i \in RowsWith(store, pdf_hash[r]) : store[i].summary # summary[r]

\* C6 Response/store consistency: a request that answered a summary page
\* finds a row for its fingerprint in the table, holding the summary it
\* answered.
C6_ResponseStoreConsistency ==
    \A r \in Reqs :
        SummaryPage(r) =>
            /\ RowsWith(store, Fingerprint(text[r])) # {}
            /\ \A i \in RowsWith(store, Fingerprint(text[r])) :
                   store[i].summary = resp[r].summary

C6_Witness ==
    \E r \in Reqs :
        /\ SummaryPage(r)
        /\ writes[r] = 1
        /\ pc[r] = "done"
        /\ \E q \in Reqs \ {r} : SummaryPage(q) /\ text[q] = text[r] /\ writes[q] = 0

\* C7 Non-PDF rejection: a request whose file name is empty or does not end
\* in ".pdf" is answered with the upload form and its error, having called
\* neither the extractor nor the summarizer and never touched the database.
C7_NonPdfRejection ==
    \A r \in Reqs :
        (pc[r] # "new" /\ ~DeclaresPdf(file[r])) =>
            /\ Answered(r)
            /\ resp[r].template = "upload.html"
            /\ resp[r].error = "Please ensure that the uploaded file is in PDF format."
            /\ extractCalls[r] = 0
            /\ sumCalls[r] = 0
            /\ writes[r] = 0
            /\ conn[r] = "none"

C7_Witness ==
    \E r1 \in Reqs : \E r2 \in Reqs \ {r1} :
        /\ pc[r1] = "done" /\ file[r1].filename = <<>>
        /\ pc[r2] = "done" /\ file[r2].filename # <<>> /\ ~DeclaresPdf(file[r2])
        /\ resp[r1] = resp[r2]

\* C8 Extraction failure isolation: a request whose extractor call failed
\* answers the extraction error, calls no summarizer and writes no row.
C8_ExtractionFailureIsolation ==
    \A r \in Reqs :
        (extractCalls[r] > 0 /\ ~file[r].readable) =>
            /\ Answered(r)
            /\ resp[r].template = "upload.html"
            /\ resp[r].error = "An error occurred while reading the PDF."
            /\ sumCalls[r] = 0
            /\ writes[r] = 0
            /\ conn[r] = "none"

C8_Witness ==
    \E r \in Reqs :
        /\ pc[r] = "done"
        /\ extractCalls[r] = 1
        /\ failedAt[r] = "extract"
        /\ Len(store) > 0

UserMessages ==
    { "An error occurred while reading the PDF.",
      "The summarization process timed out. Please try again later.",
      "An error occurred with the database.",
      "An error occured while retrieving the summary." }

C10_RejectedStatus ==
    \A r \in Reqs :
        Answered(r) =>
            /\ ~DeclaresPdf(file[r]) => resp[r].status # 200
            /\ resp[r].template = "summary.html" => resp[r].status = 200

\* C11 Scoped store handle: the connection a request holds is one it opened
\* itself, and once the request has ended the connection it opened and the
\* connection it held are closed, whichever way the request ended.
C11_ScopedStoreHandle ==
    \A r \in Reqs :
        /\ g[r] # 0 => g[r] = r
        /\ conn[r] = "open" => pc[r] \in {"summarize", "insert", "commit", "teardown"}
        /\ pc[r] = "done" =>
              /\ conn[r] # "open"
              /\ g[r] # 0 => conn[g[r]] = "closed"

\* One request ended on a cache hit, another after a miss and a commit, both
\* with their own connection closed.
C11_Witness ==
    \E r1 \in Reqs : \E r2 \in Reqs \ {r1} :
        /\ pc[r1] = "done" /\ presentAtLookup[r1] /\ g[r1] = r1 /\ conn[r1] = "closed"
        /\ pc[r2] = "done" /\ writes[r2] = 1 /\ g[r2] = r2 /\ conn[r2] = "closed"

\* The request has executed, or is about to commit, its INSERT.
AttemptedInsert(r) ==
    pc[r] = "commit" \/ writes[r] = 1 \/ failedAt[r] \in {"insert", "commit"}

\* C12 Unprotected check-then-act: a request that missed is never kept from
\* calling the summarizer by another request, so two requests with one
\* fingerprint can both miss, both summarize and both insert (C12_Witness).
C12_UnprotectedCheckThenAct ==
    \A r \in Reqs : pc[r] = "summarize" => ENABLED Summarize(r)

C12_Witness ==
    \E r1 \in Reqs : \E r2 \in Reqs \ {r1} :
        /\ pdf_hash[r1] = pdf_hash[r2]
        /\ ~presentAtLookup[r1] /\ ~presentAtLookup[r2]
        /\ sumCalls[r1] = 1 /\ sumCalls[r2] = 1
        /\ AttemptedInsert(r1) /\ AttemptedInsert(r2)

\* C13 No retries: no request calls the summarizer more than once, and no
\* step changes the summarizer calls or the committed rows of a request in
\* which a step has failed; the steps such a request still takes leave the
\* table as it is.
C13_NoRetries ==
    [][ \A r \in Reqs :
          /\ sumCalls'[r] <= 1
          /\ failedAt[r] # None =>
                /\ sumCalls'[r] = sumCalls[r]
                /\ writes'[r] = writes[r]
                /\ pc'[r] # pc[r] => store' = store ]_vars

\* A request whose commit failed has ended: one summarizer call, no row.
C13_Witness ==
    \E r \in Reqs :
        /\ pc[r] = "done"
        /\ failedAt[r] = "commit"
        /\ sumCalls[r] = 1
        /\ writes[r] = 0

C15_NonEmptySummaries ==
    \A i \in 1..Len(store) : store[i].summary # ""

\* The request has run its SELECT to the end.
LookedUp(q) ==
    presentAtLookup[q] \/ sumCalls[q] > 0 \/ pc[q] \in {"summarize", "insert", "commit"}

\* C16 Summarizer failure leaves the store unchanged: a request whose
\* summarizer call failed answers an error, holds no write lock and commits
\* no row; and a request for the same text that arrives after it has ended
\* misses the cache again, unless a third request committed the row.
C16_SummarizerFailureFrame ==
    \A r \in Reqs :
        failedAt[r] = "summarize" =>
            /\ Answered(r)
            /\ resp[r].template = "upload.html"
            /\ writes[r] = 0
            /\ writer # r
            /\ \A q \in Reqs \ {r} :
                  ( /\ r \in doneBefore[q]
                    /\ LookedUp(q)
                    /\ text[q] = text[r]
                    /\ \A p \in Reqs \ {r, q} :
                          pdf_hash[p] = pdf_hash[r] => writes[p] = 0 )
                  => ~presentAtLookup[q]

C16_Witness ==
    \E r \in Reqs : \E q \in Reqs \ {r} :
        /\ failedAt[r] = "summarize"
        /\ r \in doneBefore[q]
        /\ text[q] = text[r]
        /\ ~presentAtLookup[q]
        /\ sumCalls[q] = 1
        /\ writes[q] = 1

====
